---- MODULE Spec2Model ----
(***************************************************************************)
(* Variance inference (librustc/middle/typeck/variance.rs).                *)
(*                                                                         *)
(* The pass runs three phases over one crate: the indexer (TermsContext)   *)
(* assigns an inferred index to every parameter of every enum, struct and  *)
(* trait; the constraint generator (ConstraintContext) emits inequalities  *)
(* V(i) <= term; the solver (SolveContext) iterates them to a fixed point  *)
(* and writes the result into tcx.item_variance_map.                       *)
(***************************************************************************)
EXTENDS Integers, Sequences, FiniteSets

VARIABLES
    crate,              \* the crate being analysed together with the tcx tables it reads
    pc,                 \* position of the pass: "terms", "constraints", "solve", "write", "done", "failed"
    walk,               \* items the running visitor has still to visit, in visiting order
    inferred_infos,     \* TermsContext.inferred_infos
    inferred_map,       \* TermsContext.inferred_map: param node id -> InferredIndex
    item_variance_map,  \* tcx.item_variance_map: DefId -> ItemVariances
    constraints,        \* ConstraintContext.constraints / SolveContext.constraints
    solutions,          \* SolveContext.solutions
    changed,            \* solve(): the flag of the while loop
    ci,                 \* solve(): position of the for loop inside a sweep (0 = at the while test)
    windex,             \* write(): the variable index
    runs,               \* number of times infer_variance was entered
    first_written,      \* item_variance_map as the first run of infer_variance left it
    updates,            \* solve(): how often each cell of solutions has been assigned to
    call                \* a single call of one function of the pass: arguments and return value

vars == <<crate, pc, walk, inferred_infos, inferred_map, item_variance_map,
          constraints, solutions, changed, ci, windex, runs, first_written,
          updates, call>>

(***************************************************************************)
(* Bounds of the model.                                                    *)
(***************************************************************************)
NumInferred == 2        \* inferreds of the constraint systems given to the solver alone
MaxConstraints == 2     \* length of the constraint lists given to the solver alone
MaxRuns == 2            \* infer_variance is entered at most this many times on one tcx
MaxUpdates == 3         \* assignments to one cell of solutions that are counted

(***************************************************************************)
(* ty::Variance and the two operations on it.                              *)
(***************************************************************************)
Covariant == "Covariant"
Contravariant == "Contravariant"
Invariant == "Invariant"
Bivariant == "Bivariant"

Variance == {Covariant, Contravariant, Invariant, Bivariant}

\* The lattice of the module comment: Invariant at the bottom, Bivariant on top.
Leq(a, b) == a = b \/ a = Invariant \/ b = Bivariant

\* xform with the receiver and the argument taken for one another
XformArgumentFirst(v1, v2) ==
    CASE v2 = Covariant /\ v1 = Covariant         -> Covariant
      [] v2 = Covariant /\ v1 = Contravariant     -> Contravariant
      [] v2 = Covariant /\ v1 = Invariant         -> Invariant
      [] v2 = Covariant /\ v1 = Bivariant         -> Bivariant
      [] v2 = Contravariant /\ v1 = Covariant     -> Contravariant
      [] v2 = Contravariant /\ v1 = Contravariant -> Covariant
      [] v2 = Contravariant /\ v1 = Invariant     -> Invariant
      [] v2 = Contravariant /\ v1 = Bivariant     -> Bivariant
      [] v2 = Invariant                           -> Invariant
      [] v2 = Bivariant                           -> Bivariant

\* impl Xform for ty::Variance: self.xform(v)
Xform(v1, v2) ==
    CASE v1 = Covariant /\ v2 = Covariant         -> Covariant
      [] v1 = Covariant /\ v2 = Contravariant     -> Contravariant
      [] v1 = Covariant /\ v2 = Invariant         -> Invariant
      [] v1 = Covariant /\ v2 = Bivariant         -> Bivariant
      [] v1 = Contravariant /\ v2 = Covariant     -> Contravariant
      [] v1 = Contravariant /\ v2 = Contravariant -> Covariant
      [] v1 = Contravariant /\ v2 = Invariant     -> Invariant
      [] v1 = Contravariant /\ v2 = Bivariant     -> Bivariant
      [] v1 = Invariant                           -> Invariant
      [] v1 = Bivariant                           -> Bivariant

\* glb with the arm (Covariant, Contravariant) answering its second argument.
glbKeepsOld(v1, v2) ==
    IF v1 = Invariant \/ v2 = Invariant THEN Invariant
    ELSE IF v1 = Covariant /\ v2 = Contravariant THEN Contravariant
    ELSE IF v1 = Contravariant /\ v2 = Covariant THEN Invariant
    ELSE IF v1 = Covariant /\ v2 = Covariant THEN Covariant
    ELSE IF v1 = Contravariant /\ v2 = Contravariant THEN Contravariant
    ELSE IF v2 = Bivariant THEN v1
    ELSE v2

\* glb with the arm (Covariant, Covariant) answering Invariant.
glbTooLow(v1, v2) ==
    IF v1 = Invariant \/ v2 = Invariant THEN Invariant
    ELSE IF v1 = Covariant /\ v2 = Contravariant THEN Invariant
    ELSE IF v1 = Contravariant /\ v2 = Covariant THEN Invariant
    ELSE IF v1 = Covariant /\ v2 = Covariant THEN Invariant
    ELSE IF v1 = Contravariant /\ v2 = Contravariant THEN Contravariant
    ELSE IF v2 = Bivariant THEN v1
    ELSE v2

\* glb with the two mixed arms answering their first argument.
glbFirst(v1, v2) ==
    IF v1 = Invariant \/ v2 = Invariant THEN Invariant
    ELSE IF v1 = Covariant /\ v2 = Contravariant THEN Covariant
    ELSE IF v1 = Contravariant /\ v2 = Covariant THEN Contravariant
    ELSE IF v1 = Covariant /\ v2 = Covariant THEN Covariant
    ELSE IF v1 = Contravariant /\ v2 = Contravariant THEN Contravariant
    ELSE IF v2 = Bivariant THEN v1
    ELSE v2

\* glb with the last arm answering Bivariant instead of the other argument.
glbBivariantWins(v1, v2) ==
    IF v1 = Invariant \/ v2 = Invariant THEN Invariant
    ELSE IF v1 = Covariant /\ v2 = Contravariant THEN Invariant
    ELSE IF v1 = Contravariant /\ v2 = Covariant THEN Invariant
    ELSE IF v1 = Covariant /\ v2 = Covariant THEN Covariant
    ELSE IF v1 = Contravariant /\ v2 = Contravariant THEN Contravariant
    ELSE Bivariant

\* fn glb(v1, v2): the arms of the match in their order.
glb(v1, v2) ==
    IF v1 = Invariant \/ v2 = Invariant THEN Invariant
    ELSE IF v1 = Covariant /\ v2 = Contravariant THEN Invariant
    ELSE IF v1 = Contravariant /\ v2 = Covariant THEN Invariant
    ELSE IF v1 = Covariant /\ v2 = Covariant THEN Covariant
    ELSE IF v1 = Contravariant /\ v2 = Contravariant THEN Contravariant
    ELSE IF v2 = Bivariant THEN v1
    ELSE v2

(***************************************************************************)
(* enum VarianceTerm.  An InferredIndex counts from 0 as in the source;    *)
(* the sequences of the model count from 1.                                *)
(***************************************************************************)
ConstantTerm(v) == [tag |-> "ConstantTerm", v |-> v]
TransformTerm(t1, t2) == [tag |-> "TransformTerm", t1 |-> t1, t2 |-> t2]
InferredTerm(i) == [tag |-> "InferredTerm", index |-> i]

Constraint(i, term) == [inferred |-> i, variance |-> term]

RECURSIVE evaluate(_, _)
\* SolveContext::evaluate over the solutions vector sol
evaluate(term, sol) ==
    CASE term.tag = "ConstantTerm"  -> term.v
      [] term.tag = "TransformTerm" ->
            LET v1 == evaluate(term.t1, sol)
                v2 == evaluate(term.t2, sol)
            IN  Xform(v1, v2)
      [] term.tag = "InferredTerm"  -> sol[term.index + 1]

\* ConstraintContext::constant_term: the four constant terms allocated once
constant_term(v) == ConstantTerm(v)

\* xform with the first shortcut taken when v1, not v2, is the covariant constant
xform_shortcut_on_v1(v1, v2) ==
    IF v1 = ConstantTerm(Covariant) THEN v1
    ELSE IF v1.tag = "ConstantTerm" /\ v2.tag = "ConstantTerm"
         THEN constant_term(Xform(v1.v, v2.v))
    ELSE TransformTerm(v1, v2)

\* ConstraintContext::xform: the transform of two terms, with its two shortcuts
xform(v1, v2) ==
    IF v2 = ConstantTerm(Covariant) THEN v1
    ELSE IF v1.tag = "ConstantTerm" /\ v2.tag = "ConstantTerm"
         THEN constant_term(Xform(v1.v, v2.v))
    ELSE TransformTerm(v1, v2)

\* no call is being observed
NoCall == [fn |-> "none", args |-> <<>>, ret |-> <<>>]

(***************************************************************************)
(* The solver: SolveContext::solve, one step per constraint of a sweep.    *)
(***************************************************************************)
\* the body of the for loop with new_value taken to be the evaluated term
SolveCellWithoutGlb(c, sol) ==
    LET variance  == evaluate(c.variance, sol)
        old_value == sol[c.inferred + 1]
        new_value == variance
    IN  [old_value |-> old_value, new_value |-> new_value]

\* body of the for loop of solve(): the values it computes for one constraint
SolveCell(c, sol) ==
    LET variance  == evaluate(c.variance, sol)
        old_value == sol[c.inferred + 1]
        new_value == glb(variance, old_value)
    IN  [old_value |-> old_value, new_value |-> new_value]

\* while changed { changed = false; for ... }: the test succeeds, a sweep starts
SolveSweepStart ==
    /\ pc = "solve" /\ ci = 0 /\ changed
    /\ changed' = FALSE
    /\ ci' = IF Len(constraints) = 0 THEN 0 ELSE 1
    /\ UNCHANGED <<call, updates, crate, pc, walk, inferred_infos, inferred_map, item_variance_map,
                   constraints, solutions, windex, runs, first_written>>

\* the iteration with the assignment changed = true left out
SolveConstraintKeepsFlag ==
    /\ pc = "solve" /\ ci >= 1 /\ ci <= Len(constraints)
    /\ LET r == SolveCell(constraints[ci], solutions)
       IN  IF r.old_value # r.new_value
           THEN /\ solutions' = [solutions EXCEPT ![constraints[ci].inferred + 1] = r.new_value]
                /\ updates' = [updates EXCEPT ![constraints[ci].inferred + 1] =
                                                  IF @ < MaxUpdates THEN @ + 1 ELSE @]
                /\ UNCHANGED changed
           ELSE UNCHANGED <<solutions, changed, updates>>
    /\ ci' = IF ci = Len(constraints) THEN 0 ELSE ci + 1
    /\ UNCHANGED <<call, crate, pc, walk, inferred_infos, inferred_map, item_variance_map,
                   constraints, windex, runs, first_written>>

\* one iteration of the for loop over self.constraints
SolveConstraint ==
    /\ pc = "solve" /\ ci >= 1 /\ ci <= Len(constraints)
    /\ LET r == SolveCell(constraints[ci], solutions)
       IN  IF r.old_value # r.new_value
           THEN /\ solutions' = [solutions EXCEPT ![constraints[ci].inferred + 1] = r.new_value]
                /\ updates' = [updates EXCEPT ![constraints[ci].inferred + 1] =
                                                  IF @ < MaxUpdates THEN @ + 1 ELSE @]
                /\ changed' = TRUE
           ELSE UNCHANGED <<solutions, changed, updates>>
    /\ ci' = IF ci = Len(constraints) THEN 0 ELSE ci + 1
    /\ UNCHANGED <<call, crate, pc, walk, inferred_infos, inferred_map, item_variance_map,
                   constraints, windex, runs, first_written>>

\* the while test fails: solve() returns and solve_constraints goes on to write()
SolveReturn ==
    /\ pc = "solve" /\ ci = 0 /\ ~changed
    /\ pc' = "write"
    /\ windex' = 0
    /\ UNCHANGED <<call, updates, crate, walk, inferred_infos, inferred_map, item_variance_map,
                   constraints, solutions, changed, ci, runs, first_written>>

RECURSIVE sweep(_, _, _)
\* the for loop of solve() from position k on; st carries solutions and changed
sweep(cs, k, st) ==
    IF k > Len(cs) THEN st
    ELSE LET r == SolveCell(cs[k], st.sol)
         IN  IF r.old_value # r.new_value
             THEN sweep(cs, k + 1, [sol |-> [st.sol EXCEPT ![cs[k].inferred + 1] = r.new_value],
                                    changed |-> TRUE])
             ELSE sweep(cs, k + 1, st)

RECURSIVE solve(_, _)
\* SolveContext::solve as a function of the constraint list: the solutions it returns with
solve(cs, sol) ==
    LET r == sweep(cs, 1, [sol |-> sol, changed |-> FALSE])
    IN  IF r.changed THEN solve(cs, r.sol) ELSE r.sol

(***************************************************************************)
(* The solver alone, on every constraint list over NumInferred inferreds.  *)
(***************************************************************************)
InferredIndexes == 0 .. (NumInferred - 1)

LeafTerms == {ConstantTerm(v) : v \in Variance} \cup {InferredTerm(i) : i \in InferredIndexes}

\* constants, inferreds and the transforms the constraint generator builds at a use
\* C<..> of a local item: a contravariant or invariant ambient, or the declared
\* variance of another parameter as ambient, over a declared variance
SolverTerms ==
    LeafTerms
    \cup {xform(ConstantTerm(c), InferredTerm(j)) :
              c \in {Contravariant, Invariant}, j \in InferredIndexes}
    \cup {xform(InferredTerm(p[1]), InferredTerm(p[2])) :
              p \in {q \in InferredIndexes \X InferredIndexes : q[1] # q[2]}}

SolverConstraints == {Constraint(i, t) : i \in InferredIndexes, t \in SolverTerms}


NoItem == [id |-> 0, node |-> "item_mod", lifetimes |-> <<>>, ty_params |-> <<>>,
           variants |-> <<>>, fields |-> <<>>, methods |-> <<>>, nested |-> <<>>]

\* a crate of one struct that declares NumInferred type parameters
SolverCrate ==
    [top |-> <<1>>,
     items |-> [n \in {1} |-> [NoItem EXCEPT !.id = 1, !.node = "item_struct",
                                  !.ty_params = [k \in 1 .. NumInferred |-> 10 + k]]],
     generics |-> <<>>,
     item_variance_map |-> <<>>]

InitSolve ==
    /\ crate = SolverCrate
    /\ pc = "solve"
    /\ walk = <<>>
    /\ inferred_infos = [k \in 1 .. NumInferred |->
                            [item_id |-> 1, kind |-> "TypeParam", index |-> k - 1,
                             param_id |-> 10 + k, term |-> InferredTerm(k - 1)]]
    /\ inferred_map = [p \in {10 + k : k \in 1 .. NumInferred} |-> p - 11]
    /\ item_variance_map = <<>>
    /\ \E n \in 0 .. MaxConstraints : constraints \in [1 .. n -> SolverConstraints]
    /\ solutions = [k \in 1 .. NumInferred |-> Bivariant]
    /\ changed = TRUE
    /\ ci = 0
    /\ windex = 0
    /\ runs = 1
    /\ first_written = <<>>
    /\ updates = [k \in 1 .. NumInferred |-> 0]
    /\ call = NoCall

NextSolve == SolveSweepStart \/ SolveConstraint \/ SolveReturn

SpecSolve == InitSolve /\ [][NextSolve]_vars

FairSpecSolve == SpecSolve /\ WF_vars(NextSolve)

(***************************************************************************)
(* The tcx tables the pass reads.  A DefId is [crate, node]; the crate     *)
(* being compiled is LOCAL_CRATE.  A type is a record tagged by its sty.   *)
(***************************************************************************)
LOCAL_CRATE == 0

local_def(node) == [crate |-> LOCAL_CRATE, node |-> node]

IsVarianceItem(item) == item.node \in {"item_enum", "item_struct", "item_trait"}

\* ty::lookup_item_type(tcx, def_id).generics and ty::lookup_trait_def(tcx, def_id).generics
lookup_generics(def_id) ==
    IF def_id.crate = LOCAL_CRATE
    THEN LET item == crate.items[def_id.node]
         IN  [type_param_defs   |-> [k \in 1 .. Len(item.ty_params) |-> local_def(item.ty_params[k])],
              region_param_defs |-> [k \in 1 .. Len(item.lifetimes) |-> local_def(item.lifetimes[k])]]
    ELSE crate.generics[def_id]

\* ty::item_variances(tcx, def_id) for an item of another crate
item_variances(def_id) == item_variance_map[def_id]

\* HashMap::insert: the map after the insertion (an existing value is replaced)
Insert(map, key, value) ==
    [k \in (DOMAIN map) \cup {key} |-> IF k = key THEN value ELSE map[k]]

ItemVariances(self_param, type_params, region_params) ==
    [self_param |-> self_param, type_params |-> type_params, region_params |-> region_params]

(***************************************************************************)
(* The indexer: TermsContext.                                              *)
(***************************************************************************)
\* add_inferred: the record pushed for (item_id, kind, index, param_id) when
\* infos holds the records pushed so far
InferredInfo(infos, item_id, kind, index, param_id) ==
    [item_id |-> item_id, kind |-> kind, index |-> index, param_id |-> param_id,
     term |-> InferredTerm(Len(infos))]

\* the calls of add_inferred with the type parameters ahead of the lifetimes
InferredsOfItemTypesFirst(item) ==
    (IF item.node = "item_trait"
     THEN <<[kind |-> "SelfParam", index |-> 0, param_id |-> item.id]>> ELSE <<>>)
    \o (IF item.node \in {"item_enum", "item_struct", "item_trait"}
        THEN [k \in 1 .. Len(item.ty_params) |->
                 [kind |-> "TypeParam", index |-> k - 1, param_id |-> item.ty_params[k]]]
             \o [k \in 1 .. Len(item.lifetimes) |->
                 [kind |-> "RegionParam", index |-> k - 1, param_id |-> item.lifetimes[k]]]
        ELSE <<>>)

\* the calls of add_inferred that visit_item makes for an item, in their order:
\* Self of a trait, then the lifetimes, then the type parameters
InferredsOfItem(item) ==
    (IF item.node = "item_trait"
     THEN <<[kind |-> "SelfParam", index |-> 0, param_id |-> item.id]>> ELSE <<>>)
    \o (IF IsVarianceItem(item)
        THEN [k \in 1 .. Len(item.lifetimes) |->
                 [kind |-> "RegionParam", index |-> k - 1, param_id |-> item.lifetimes[k]]]
             \o [k \in 1 .. Len(item.ty_params) |->
                 [kind |-> "TypeParam", index |-> k - 1, param_id |-> item.ty_params[k]]]
        ELSE <<>>)

RECURSIVE add_inferreds(_, _, _, _)
\* add_inferred applied to the calls from position k on; st carries inferred_infos,
\* inferred_map and whether every assert!(newly_added) held so far
add_inferreds(item_id, calls, k, st) ==
    IF k > Len(calls) \/ ~st.ok THEN st
    ELSE LET c == calls[k]
             inf_index == Len(st.infos)
         IN  add_inferreds(item_id, calls, k + 1,
                [infos |-> Append(st.infos,
                                  InferredInfo(st.infos, item_id, c.kind, c.index, c.param_id)),
                 map   |-> Insert(st.map, c.param_id, inf_index),
                 ok    |-> c.param_id \notin DOMAIN st.map])

(***************************************************************************)
(* The constraint generator: ConstraintContext.  Each function answers     *)
(* the constraints it appends, in order, and whether it ran into           *)
(* sess.bug or a failed assertion.                                         *)
(***************************************************************************)
Ok(cs) == [cs |-> cs, bug |-> FALSE]
Bug == [cs |-> <<>>, bug |-> TRUE]

\* r1 followed by r2; nothing runs after a bug
Then(r1, r2) == IF r1.bug THEN r1 ELSE [cs |-> r1.cs \o r2.cs, bug |-> r2.bug]

covariant == ConstantTerm(Covariant)

\* ConstraintContext::contravariant
contravariant(variance) == xform(variance, ConstantTerm(Contravariant))

\* invariant() handing xform the contravariant constant
invariant_uses_contravariant(variance) == xform(variance, ConstantTerm(Contravariant))

\* ConstraintContext::invariant
invariant(variance) == xform(variance, ConstantTerm(Invariant))

add_constraint(index, variance) == Ok(<<Constraint(index, variance)>>)

\* declared_variance: the term, or a bug (failed assert_eq, or inferred_index finds no entry)
declared_variance(param_def_id, item_def_id, kind, index) ==
    IF param_def_id.crate # item_def_id.crate THEN [bug |-> TRUE, term |-> covariant]
    ELSE IF param_def_id.crate = LOCAL_CRATE
    THEN IF param_def_id.node \in DOMAIN inferred_map
         THEN [bug |-> FALSE, term |-> inferred_infos[inferred_map[param_def_id.node] + 1].term]
         ELSE [bug |-> TRUE, term |-> covariant]
    ELSE LET variances == item_variances(item_def_id)
             variance  == CASE kind = "SelfParam"   -> variances.self_param[1]
                            [] kind = "TypeParam"   -> variances.type_params[index + 1]
                            [] kind = "RegionParam" -> variances.region_params[index + 1]
         IN  [bug |-> FALSE, term |-> constant_term(variance)]

\* add_constraints_from_region with ReEarlyBound in the arm of ReLateBound
add_constraints_from_region_skipping_early_bound(region, variance) ==
    CASE region.r = "ReEarlyBound" -> Ok(<<>>)
      [] region.r = "ReStatic"    -> Ok(<<>>)
      [] region.r = "ReLateBound" -> Ok(<<>>)
      [] OTHER                    -> Bug

add_constraints_from_region(region, variance) ==
    CASE region.r = "ReEarlyBound" ->
            IF region.param_id \in DOMAIN inferred_map
            THEN add_constraint(inferred_map[region.param_id], variance)
            ELSE Bug
      [] region.r = "ReStatic"    -> Ok(<<>>)
      [] region.r = "ReLateBound" -> Ok(<<>>)
      [] OTHER                    -> Bug

add_constraints_from_vstore(vstore, variance) ==
    IF vstore.vs = "vstore_slice"
    THEN add_constraints_from_region(vstore.r, contravariant(variance))
    ELSE Ok(<<>>)

RECURSIVE add_constraints_from_ty(_, _)
RECURSIVE add_constraints_from_tys(_, _, _)
RECURSIVE add_constraints_from_substs_tps(_, _, _, _, _)

\* add_constraints_from_mt with the mutable arm recursing on the ambient variance
add_constraints_from_mt_ignoring_mutbl(mt, variance) ==
    add_constraints_from_ty(mt.ty, variance)

add_constraints_from_mt(mt, variance) ==
    IF mt.mutbl = "MutMutable"
    THEN add_constraints_from_ty(mt.ty, invariant(variance))
    ELSE add_constraints_from_ty(mt.ty, variance)

\* add_constraints_from_sig with the inputs visited at the ambient variance
add_constraints_from_sig_inputs_unflipped(sig, variance) ==
    Then(add_constraints_from_tys(sig.inputs, 1, variance),
         add_constraints_from_ty(sig.output, variance))

add_constraints_from_sig(sig, variance) ==
    LET contra == contravariant(variance)
    IN  Then(add_constraints_from_tys(sig.inputs, 1, contra),
             add_constraints_from_ty(sig.output, variance))

\* for &subty in subtys.iter() { add_constraints_from_ty(subty, variance) }, from position k on
add_constraints_from_tys(tys, k, variance) ==
    IF k > Len(tys) THEN Ok(<<>>)
    ELSE Then(add_constraints_from_ty(tys[k], variance),
              add_constraints_from_tys(tys, k + 1, variance))

\* add_constraints_from_substs: the loop over generics.type_param_defs, from position k on
add_constraints_from_substs_tps(def_id, generics, substs, variance, k) ==
    IF k > Len(generics.type_param_defs) THEN Ok(<<>>)
    ELSE LET variance_decl == declared_variance(generics.type_param_defs[k], def_id,
                                                "TypeParam", k - 1)
         IN  IF variance_decl.bug THEN Bug
             ELSE Then(add_constraints_from_ty(substs.tps[k],
                                               xform(variance, variance_decl.term)),
                       add_constraints_from_substs_tps(def_id, generics, substs, variance, k + 1))

RECURSIVE add_constraints_from_substs_rps(_, _, _, _, _)
\* add_constraints_from_substs: the loop over generics.region_param_defs, from position k on
add_constraints_from_substs_rps(def_id, generics, substs, variance, k) ==
    IF k > Len(generics.region_param_defs) THEN Ok(<<>>)
    ELSE LET variance_decl == declared_variance(generics.region_param_defs[k], def_id,
                                                "RegionParam", k - 1)
         IN  IF variance_decl.bug THEN Bug
             ELSE Then(add_constraints_from_region(substs.regions.rps[k],
                                                   xform(variance, variance_decl.term)),
                       add_constraints_from_substs_rps(def_id, generics, substs, variance, k + 1))

add_constraints_from_substs(def_id, generics, substs, variance) ==
    Then(add_constraints_from_substs_tps(def_id, generics, substs, variance, 1),
         IF substs.regions.erased THEN Ok(<<>>)
         ELSE add_constraints_from_substs_rps(def_id, generics, substs, variance, 1))

add_constraints_from_ty(ty, variance) ==
    CASE ty.sty \in {"ty_nil", "ty_bot", "ty_bool", "ty_char", "ty_int", "ty_uint", "ty_float"} ->
            Ok(<<>>)
      [] ty.sty = "ty_rptr" ->
            LET contra == contravariant(variance)
            IN  Then(add_constraints_from_region(ty.region, contra),
                     add_constraints_from_mt(ty.mt, variance))
      [] ty.sty = "ty_estr" ->
            add_constraints_from_vstore(ty.vstore, variance)
      [] ty.sty = "ty_evec" ->
            Then(add_constraints_from_vstore(ty.vstore, variance),
                 add_constraints_from_mt(ty.mt, variance))
      [] ty.sty \in {"ty_box", "ty_uniq", "ty_ptr"} ->
            add_constraints_from_mt(ty.mt, variance)
      [] ty.sty = "ty_tup" ->
            add_constraints_from_tys(ty.subtys, 1, variance)
      [] ty.sty \in {"ty_enum", "ty_struct", "ty_trait"} ->
            add_constraints_from_substs(ty.def_id, lookup_generics(ty.def_id),
                                        ty.substs, variance)
      [] ty.sty = "ty_param" ->
            IF ty.def_id.crate # LOCAL_CRATE THEN Bug
            ELSE IF ty.def_id.node \in DOMAIN inferred_map
                 THEN add_constraint(inferred_map[ty.def_id.node], variance)
                 ELSE Ok(<<>>)
      [] ty.sty = "ty_self" ->
            IF ty.def_id.crate # LOCAL_CRATE THEN Bug
            ELSE IF ty.def_id.node \in DOMAIN inferred_map
                 THEN add_constraint(inferred_map[ty.def_id.node], variance)
                 ELSE Bug
      [] ty.sty = "ty_bare_fn" ->
            add_constraints_from_sig(ty.sig, variance)
      [] ty.sty = "ty_closure" ->
            LET contra == contravariant(variance)
            IN  Then(add_constraints_from_region(ty.region, contra),
                     add_constraints_from_sig(ty.sig, variance))
      [] OTHER -> Bug

RECURSIVE add_constraints_from_variants(_, _)
\* visit_item, item_enum arm: the loop over the variants, from position k on
add_constraints_from_variants(variants, k) ==
    IF k > Len(variants) THEN Ok(<<>>)
    ELSE Then(add_constraints_from_tys(variants[k], 1, covariant),
              add_constraints_from_variants(variants, k + 1))

RECURSIVE add_constraints_from_methods(_, _)
\* visit_item, item_trait arm: the loop over the methods, from position k on
add_constraints_from_methods(methods, k) ==
    IF k > Len(methods) THEN Ok(<<>>)
    ELSE LET method == methods[k]
         IN  Then(Then(IF Len(method.transformed_self_ty) = 1
                       THEN add_constraints_from_ty(method.transformed_self_ty[1],
                                                    ConstantTerm(Contravariant))
                       ELSE Ok(<<>>),
                       add_constraints_from_sig(method.sig, covariant)),
                  add_constraints_from_methods(methods, k + 1))

\* ConstraintContext::visit_item: the constraints the three item arms append
constraints_of_item(item) ==
    CASE item.node = "item_enum"   -> add_constraints_from_variants(item.variants, 1)
      [] item.node = "item_struct" -> add_constraints_from_tys(item.fields, 1, covariant)
      [] item.node = "item_trait"  -> add_constraints_from_methods(item.methods, 1)
      [] OTHER                     -> Ok(<<>>)

(***************************************************************************)
(* The pass: infer_variance, one step per item a visitor visits, per       *)
(* constraint the solver visits and per item write() installs.             *)
(***************************************************************************)
EmptyItemVariances == ItemVariances(<<>>, <<>>, <<>>)

\* TermsContext::visit_item with the insertion of the empty entry left out
TermsVisitItemWithoutEmptyEntry ==
    /\ pc = "terms" /\ walk # <<>>
    /\ LET item == crate.items[Head(walk)]
           st   == add_inferreds(item.id, InferredsOfItem(item), 1,
                                 [infos |-> inferred_infos, map |-> inferred_map, ok |-> TRUE])
       IN  /\ inferred_infos' = st.infos
           /\ inferred_map' = st.map
           /\ UNCHANGED item_variance_map
           /\ IF ~st.ok
              THEN pc' = "failed" /\ UNCHANGED walk
              ELSE pc' = "terms" /\ walk' = item.nested \o Tail(walk)
    /\ UNCHANGED <<call, updates, crate, constraints, solutions, changed, ci, windex, runs, first_written>>

\* TermsContext::visit_item on the next item of the walk; walk_item goes on with
\* the items nested in it
TermsVisitItem ==
    /\ pc = "terms" /\ walk # <<>>
    /\ LET item == crate.items[Head(walk)]
           st   == add_inferreds(item.id, InferredsOfItem(item), 1,
                                 [infos |-> inferred_infos, map |-> inferred_map, ok |-> TRUE])
           did  == local_def(item.id)
       IN  /\ inferred_infos' = st.infos
           /\ inferred_map' = st.map
           /\ IF ~st.ok
              THEN pc' = "failed" /\ UNCHANGED <<walk, item_variance_map>>
              ELSE IF IsVarianceItem(item) /\ Len(st.infos) = Len(inferred_infos)
              THEN /\ item_variance_map' = Insert(item_variance_map, did, EmptyItemVariances)
                   /\ IF did \in DOMAIN item_variance_map
                      THEN pc' = "failed" /\ UNCHANGED walk
                      ELSE pc' = "terms" /\ walk' = item.nested \o Tail(walk)
              ELSE /\ UNCHANGED item_variance_map
                   /\ pc' = "terms" /\ walk' = item.nested \o Tail(walk)
    /\ UNCHANGED <<call, updates, crate, constraints, solutions, changed, ci, windex, runs, first_written>>

\* determine_parameters_to_be_inferred returns; add_constraints_from_crate starts its walk
TermsDone ==
    /\ pc = "terms" /\ walk = <<>>
    /\ pc' = "constraints"
    /\ walk' = crate.top
    /\ constraints' = <<>>
    /\ UNCHANGED <<call, updates, crate, inferred_infos, inferred_map, item_variance_map, solutions,
                   changed, ci, windex, runs, first_written>>

\* ConstraintContext::visit_item on the next item of the walk; only the items that
\* are no enum, struct or trait go on with walk_item
ConstraintVisitItem ==
    /\ pc = "constraints" /\ walk # <<>>
    /\ LET item == crate.items[Head(walk)]
           r    == constraints_of_item(item)
       IN  /\ constraints' = constraints \o r.cs
           /\ IF r.bug
              THEN pc' = "failed" /\ UNCHANGED walk
              ELSE /\ pc' = "constraints"
                   /\ walk' = IF IsVarianceItem(item) THEN Tail(walk)
                              ELSE item.nested \o Tail(walk)
    /\ UNCHANGED <<call, updates, crate, inferred_infos, inferred_map, item_variance_map, solutions,
                   changed, ci, windex, runs, first_written>>

\* add_constraints_from_crate returns; solve_constraints builds the SolveContext
ConstraintsDone ==
    /\ pc = "constraints" /\ walk = <<>>
    /\ pc' = "solve"
    /\ solutions' = [k \in 1 .. Len(inferred_infos) |-> Bivariant]
    /\ updates' = [k \in 1 .. Len(inferred_infos) |-> 0]
    /\ changed' = TRUE
    /\ ci' = 0
    /\ UNCHANGED <<call, crate, walk, inferred_infos, inferred_map, item_variance_map,
                   constraints, windex, runs, first_written>>

\* write() without its inner while loop: every record is a group of its own
group_end_without_loop(infos, index, item_id) == index + 1

RECURSIVE group_end(_, _, _)
\* write(): the inner while loop, the index at which the group of item_id ends
group_end(infos, index, item_id) ==
    IF index < Len(infos) /\ infos[index + 1].item_id = item_id
    THEN group_end(infos, index + 1, item_id)
    ELSE index

\* write(): the solutions of the records of one kind among the indexes from..to-1
group_variances(infos, sol, from, to, kind) ==
    LET picked == SelectSeq([k \in 1 .. (to - from) |-> from + k],
                            LAMBDA j : infos[j].kind = kind)
    IN  [k \in 1 .. Len(picked) |-> sol[picked[k]]]

\* write() with the assertion on newly_added left out
WriteItemWithoutAssert ==
    /\ pc = "write" /\ windex < Len(inferred_infos)
    /\ LET item_id == inferred_infos[windex + 1].item_id
           end     == group_end(inferred_infos, windex, item_id)
           selfs   == group_variances(inferred_infos, solutions, windex, end, "SelfParam")
           item_variances_ ==
               ItemVariances(IF selfs = <<>> THEN <<>> ELSE <<selfs[Len(selfs)]>>,
                             group_variances(inferred_infos, solutions, windex, end, "TypeParam"),
                             group_variances(inferred_infos, solutions, windex, end, "RegionParam"))
           item_def_id == local_def(item_id)
       IN  IF Len(selfs) > 1
           THEN pc' = "failed" /\ UNCHANGED <<item_variance_map, windex>>
           ELSE /\ item_variance_map' = Insert(item_variance_map, item_def_id, item_variances_)
                /\ windex' = end
                /\ pc' = "write"
    /\ UNCHANGED <<call, updates, crate, walk, inferred_infos, inferred_map, constraints, solutions,
                   changed, ci, runs, first_written>>

\* write(): one turn of the outer while loop, which installs the variances of one item
WriteItem ==
    /\ pc = "write" /\ windex < Len(inferred_infos)
    /\ LET item_id == inferred_infos[windex + 1].item_id
           end     == group_end(inferred_infos, windex, item_id)
           selfs   == group_variances(inferred_infos, solutions, windex, end, "SelfParam")
           item_variances_ ==
               ItemVariances(IF selfs = <<>> THEN <<>> ELSE <<selfs[Len(selfs)]>>,
                             group_variances(inferred_infos, solutions, windex, end, "TypeParam"),
                             group_variances(inferred_infos, solutions, windex, end, "RegionParam"))
           item_def_id == local_def(item_id)
       IN  IF Len(selfs) > 1
           THEN pc' = "failed" /\ UNCHANGED <<item_variance_map, windex>>
           ELSE /\ item_variance_map' = Insert(item_variance_map, item_def_id, item_variances_)
                /\ windex' = end
                /\ pc' = IF item_def_id \in DOMAIN item_variance_map THEN "failed" ELSE "write"
    /\ UNCHANGED <<call, updates, crate, walk, inferred_infos, inferred_map, constraints, solutions,
                   changed, ci, runs, first_written>>

\* write() and with it infer_variance return
WriteDone ==
    /\ pc = "write" /\ windex >= Len(inferred_infos)
    /\ pc' = "done"
    /\ first_written' = IF runs = 1 THEN item_variance_map ELSE first_written
    /\ UNCHANGED <<call, updates, crate, walk, inferred_infos, inferred_map, item_variance_map,
                   constraints, solutions, changed, ci, windex, runs>>

\* infer_variance is called once more with the same tcx and crate
InferVarianceAgain ==
    /\ pc = "done" /\ runs < MaxRuns
    /\ runs' = runs + 1
    /\ pc' = "terms"
    /\ walk' = crate.top
    /\ inferred_infos' = <<>>
    /\ inferred_map' = <<>>
    /\ constraints' = <<>>
    /\ solutions' = <<>>
    /\ updates' = <<>>
    /\ ci' = 0
    /\ windex' = 0
    /\ UNCHANGED <<call, crate, item_variance_map, changed, first_written>>

(***************************************************************************)
(* The crates the pass is run on.                                          *)
(***************************************************************************)
MaxLifetimes == 1       \* lifetime parameters an item of the declaration family declares
MaxTyParams == 2        \* type parameters an item of the declaration family declares

ty_nil == [sty |-> "ty_nil"]
ty_err == [sty |-> "ty_err"]
ty_param(node) == [sty |-> "ty_param", def_id |-> local_def(node)]
ty_self(node) == [sty |-> "ty_self", def_id |-> local_def(node)]
mt(ty, mutbl) == [ty |-> ty, mutbl |-> mutbl]
ty_rptr(region, m) == [sty |-> "ty_rptr", region |-> region, mt |-> m]
ty_ptr(m) == [sty |-> "ty_ptr", mt |-> m]
ty_uniq(m) == [sty |-> "ty_uniq", mt |-> m]
ty_evec(m, vstore) == [sty |-> "ty_evec", mt |-> m, vstore |-> vstore]
ty_estr(vstore) == [sty |-> "ty_estr", vstore |-> vstore]
ty_tup(subtys) == [sty |-> "ty_tup", subtys |-> subtys]
substs(tps, rps) == [tps |-> tps, regions |-> [erased |-> FALSE, rps |-> rps]]
substs_erased(tps) == [tps |-> tps, regions |-> [erased |-> TRUE, rps |-> <<>>]]
ty_enum(def_id, sb) == [sty |-> "ty_enum", def_id |-> def_id, substs |-> sb]
ty_struct(def_id, sb) == [sty |-> "ty_struct", def_id |-> def_id, substs |-> sb]
FnSig(inputs, output) == [inputs |-> inputs, output |-> output]
ty_bare_fn(sig) == [sty |-> "ty_bare_fn", sig |-> sig]
ty_closure(sig, region) == [sty |-> "ty_closure", sig |-> sig, region |-> region]

ReStatic == [r |-> "ReStatic"]
ReLateBound == [r |-> "ReLateBound"]
ReFree == [r |-> "ReFree"]
ReScope == [r |-> "ReScope"]
ReInfer == [r |-> "ReInfer"]
ReEmpty == [r |-> "ReEmpty"]
ReEarlyBound(param_id) == [r |-> "ReEarlyBound", param_id |-> param_id]
vstore_slice(region) == [vs |-> "vstore_slice", r |-> region]
vstore_uniq == [vs |-> "vstore_uniq"]

Method(transformed_self_ty, sig) == [transformed_self_ty |-> transformed_self_ty, sig |-> sig]

Item(id, node, lifetimes, ty_params) ==
    [NoItem EXCEPT !.id = id, !.node = node, !.lifetimes = lifetimes, !.ty_params = ty_params]

item_enum(id, lifetimes, ty_params, variants) ==
    [Item(id, "item_enum", lifetimes, ty_params) EXCEPT !.variants = variants]

item_struct(id, lifetimes, ty_params, fields) ==
    [Item(id, "item_struct", lifetimes, ty_params) EXCEPT !.fields = fields]

item_trait(id, lifetimes, ty_params, methods) ==
    [Item(id, "item_trait", lifetimes, ty_params) EXCEPT !.methods = methods]

\* an item of another crate with one type parameter of the given variance
ExternDef == [crate |-> 1, node |-> 1]
ExternGenerics == [d \in {ExternDef} |->
                      [type_param_defs |-> <<[crate |-> 1, node |-> 2]>>,
                       region_param_defs |-> <<>>]]
ExternVariances(v) == [d \in {ExternDef} |-> ItemVariances(<<>>, <<v>>, <<>>)]

\* a crate of the items its, the first n of them at the top level, on a tcx whose
\* variance map holds map0
Crate(its, top, map0) ==
    [top |-> top, items |-> its, generics |-> ExternGenerics, item_variance_map |-> map0]

\* enum Option<A> { Some(A), None }
\* enum OptionalFn<B> { Some(fn(B)), None }
\* enum OptionalMap<C> { Some(fn(C) -> C), None }
DocCrate ==
    Crate(<<item_enum(1, <<>>, <<11>>, << <<ty_param(11)>>, <<>> >>),
            item_enum(2, <<>>, <<21>>,
                      << <<ty_bare_fn(FnSig(<<ty_param(21)>>, ty_nil))>>, <<>> >>),
            item_enum(3, <<>>, <<31>>,
                      << <<ty_bare_fn(FnSig(<<ty_param(31)>>, ty_param(31)))>>, <<>> >>)>>,
          <<1, 2, 3>>, <<>>)

\* enum Option<A> { Some(A), None }
\* trait Iter<X> { fn next(&mut self) -> Option<X>; }
IterCrate ==
    Crate(<<item_enum(1, <<>>, <<11>>, << <<ty_param(11)>>, <<>> >>),
            item_trait(2, <<>>, <<21>>,
                       <<Method(<<ty_rptr(ReLateBound, mt(ty_self(2), "MutMutable"))>>,
                                FnSig(<<>>, ty_enum(local_def(1),
                                                    substs_erased(<<ty_param(21)>>))))>>)>>,
          <<1, 2>>, <<>>)

\* struct Wrap<T> { .. } in its four variances
WrapFields ==
    { <<>>,
      <<ty_param(11)>>,
      <<ty_bare_fn(FnSig(<<ty_param(11)>>, ty_nil))>>,
      <<ty_rptr(ReStatic, mt(ty_param(11), "MutMutable"))>> }

\* the types in which the parameter of item 2 sits behind a mutable reference or pointer
MutableUses ==
    LET u == ty_param(21)
        ref_mut_u == ty_rptr(ReStatic, mt(u, "MutMutable"))
    IN  { ref_mut_u,
          ty_rptr(ReEarlyBound(22), mt(u, "MutMutable")),
          ty_ptr(mt(u, "MutMutable")),
          ty_evec(mt(u, "MutMutable"), vstore_uniq),
          ty_bare_fn(FnSig(<<ref_mut_u>>, ty_nil)),
          ty_struct(local_def(1), substs_erased(<<ref_mut_u>>)),
          ty_rptr(ReStatic, mt(ty_struct(local_def(1), substs_erased(<<u>>)), "MutMutable")),
          ty_tup(<<ty_nil, ty_uniq(mt(ref_mut_u, "MutImmutable"))>>) }
    \cup { ty_struct(ExternDef, substs_erased(<<ref_mut_u>>)) }

\* struct Wrap<T> { .. } and an enum, a struct or a trait with the parameters 'a and
\* U whose member mentions U behind a mutable reference or pointer; that item stands
\* either after Wrap or in the body of a method of trait Outer
MutableCrates ==
    { Crate(<<item_struct(1, <<>>, <<11>>, w), holder,
              [item_trait(3, <<>>, <<>>, <<Method(<<>>, FnSig(<<>>, ty_nil))>>)
                  EXCEPT !.nested = IF nested THEN <<2>> ELSE <<>>]>>,
            IF nested THEN <<1, 3>> ELSE <<1, 2, 3>>, ExternVariances(v)) :
        w \in WrapFields,
        v \in {Covariant, Bivariant},
        nested \in BOOLEAN,
        holder \in UNION {
            { item_struct(2, <<22>>, <<21>>, <<use>>),
              item_enum(2, <<22>>, <<21>>, << <<>>, <<use>> >>),
              item_trait(2, <<22>>, <<21>>, <<Method(<<>>, FnSig(<<ty_nil>>, use))>>) }
            : use \in MutableUses } }

\* the members the items of the declaration family get: every lifetime and every
\* type parameter is mentioned once
MembersOf(lifetimes, ty_params) ==
    [k \in 1 .. Len(lifetimes) |-> ty_rptr(ReEarlyBound(lifetimes[k]), mt(ty_nil, "MutImmutable"))]
    \o [k \in 1 .. Len(ty_params) |-> ty_param(ty_params[k])]

ItemNodes == {"item_enum", "item_struct", "item_trait", "item_fn", "item_mod", "item_impl"}

\* the item id of kind node that declares nl lifetimes and nt type parameters
DeclaredItem(id, node, nl, nt) ==
    LET lifetimes == [k \in 1 .. nl |-> 10 * id + k]
        ty_params == [k \in 1 .. nt |-> 10 * id + 5 + k]
        members   == MembersOf(lifetimes, ty_params)
    IN  CASE node = "item_enum"   -> item_enum(id, lifetimes, ty_params, <<members>>)
          [] node = "item_struct" -> item_struct(id, lifetimes, ty_params, members)
          [] node = "item_trait"  ->
                item_trait(id, lifetimes, ty_params,
                           <<Method(<<ty_rptr(ReLateBound, mt(ty_self(id), "MutImmutable"))>>,
                                    FnSig(members, ty_nil))>>)
          [] OTHER                -> Item(id, node, lifetimes, ty_params)

DeclaredItems(id) ==
    { DeclaredItem(id, node, nl, nt) :
        node \in ItemNodes, nl \in 0 .. MaxLifetimes, nt \in 0 .. MaxTyParams }

\* two items of every kind and every number of parameters, the second either nested
\* in the first or after it, followed by struct Tail<'t, V> { f: &'t V }
DeclarationCrates ==
    { Crate(<<IF nested THEN [i1 EXCEPT !.nested = <<2>>] ELSE i1, i2,
              item_struct(3, <<31>>, <<36>>,
                          <<ty_rptr(ReEarlyBound(31), mt(ty_param(36), "MutImmutable"))>>)>>,
            IF nested THEN <<1, 3>> ELSE <<1, 2, 3>>, <<>>) :
        i1 \in DeclaredItems(1), i2 \in DeclaredItems(2), nested \in BOOLEAN }

\* crates the pass gives up on: an unresolved type, a free region, a type parameter
\* id declared twice, an entry for a local item already in the variance map
BrokenCrates ==
    { Crate(<<item_struct(1, <<>>, <<11>>, <<ty_param(11), ty_err>>)>>, <<1>>, <<>>),
      Crate(<<item_struct(1, <<>>, <<11>>,
                          <<ty_rptr(ReFree, mt(ty_param(11), "MutImmutable"))>>)>>, <<1>>, <<>>),
      Crate(<<item_struct(1, <<>>, <<11, 11>>, <<ty_param(11)>>)>>, <<1>>, <<>>),
      Crate(<<item_struct(1, <<>>, <<11>>, <<ty_param(11)>>)>>, <<1>>,
            [d \in {local_def(1)} |-> EmptyItemVariances]),
      Crate(<<item_struct(1, <<>>, <<>>, <<ty_nil>>)>>, <<1>>,
            [d \in {local_def(1)} |-> EmptyItemVariances]) }

Crates == {DocCrate, IterCrate} \cup MutableCrates \cup DeclarationCrates \cup BrokenCrates

\* infer_variance is entered for the first time
Init ==
    /\ crate \in Crates
    /\ pc = "terms"
    /\ walk = crate.top
    /\ inferred_infos = <<>>
    /\ inferred_map = <<>>
    /\ item_variance_map = crate.item_variance_map
    /\ constraints = <<>>
    /\ solutions = <<>>
    /\ changed = TRUE
    /\ ci = 0
    /\ windex = 0
    /\ runs = 1
    /\ first_written = <<>>
    /\ updates = <<>>
    /\ call = NoCall

Next ==
    \/ TermsVisitItem
    \/ TermsDone
    \/ ConstraintVisitItem
    \/ ConstraintsDone
    \/ SolveSweepStart
    \/ SolveConstraint
    \/ SolveReturn
    \/ WriteItem
    \/ WriteDone
    \/ InferVarianceAgain

Spec == Init /\ [][Next]_vars

(***************************************************************************)
(* Single calls of the functions of the pass.  A call is made in the state *)
(* the indexer leaves on a trait that declares lifetimes and type          *)
(* parameters; the constraint generator has pushed some constraints.       *)
(***************************************************************************)
\* trait T<'a.., A..> of MaxLifetimes lifetimes and MaxTyParams type parameters
CallCrate == Crate(<<DeclaredItem(1, "item_trait", MaxLifetimes, MaxTyParams)>>, <<1>>, <<>>)

\* what TermsContext holds after its walk over CallCrate
CallTerms ==
    add_inferreds(1, InferredsOfItem(CallCrate.items[1]), 1,
                  [infos |-> <<>>, map |-> <<>>, ok |-> TRUE])

\* the node id of a parameter that a method declares: no inferred stands for it
MethodParam == 91

Call(fn, args) == [fn |-> fn, args |-> args, ret |-> <<>>]

\* terms of at most one TransformTerm over the constants and inferreds
TermArgs == LeafTerms \cup {TransformTerm(t1, t2) : t1 \in LeafTerms, t2 \in LeafTerms}

\* every ty::Region, with a lifetime parameter of the trait and an id without inferred
RegionArgs ==
    {ReStatic, ReLateBound, ReFree, ReScope, ReInfer, ReEmpty}
    \cup {ReEarlyBound(p) : p \in (DOMAIN CallTerms.map) \cup {MethodParam}}

\* a type parameter of the trait or of a method
TyParamArgs == {ty_param(p) : p \in (DOMAIN CallTerms.map) \cup {MethodParam}}

Calls ==
    {Call("Xform", <<v1, v2>>) : v1 \in Variance, v2 \in Variance}
    \cup {Call("glb", <<v1, v2>>) : v1 \in Variance, v2 \in Variance}
    \cup {Call("xform", <<t1, t2>>) : t1 \in TermArgs, t2 \in TermArgs}
    \cup {Call("add_constraints_from_region", <<region, variance>>) :
              region \in RegionArgs, variance \in LeafTerms}
    \cup {Call("add_constraints_from_ty", <<ty, variance>>) :
              ty \in TyParamArgs, variance \in LeafTerms}

InitCalls ==
    /\ crate = CallCrate
    /\ pc = "call"
    /\ walk = <<>>
    /\ inferred_infos = CallTerms.infos
    /\ inferred_map = CallTerms.map
    /\ item_variance_map = <<>>
    /\ constraints \in {<<>>, <<Constraint(0, covariant)>>}
    /\ solutions = <<>>
    /\ changed = TRUE
    /\ ci = 0
    /\ windex = 0
    /\ runs = 1
    /\ first_written = <<>>
    /\ updates = <<>>
    /\ call \in Calls

\* v1.xform(v2) on two variances
CallVarianceXform ==
    /\ pc = "call" /\ call.fn = "Xform"
    /\ call' = [call EXCEPT !.ret = <<Xform(call.args[1], call.args[2])>>]
    /\ pc' = "returned"
    /\ UNCHANGED <<updates, crate, walk, inferred_infos, inferred_map, item_variance_map,
                   constraints, solutions, changed, ci, windex, runs, first_written>>

\* glb(v1, v2)
CallGlb ==
    /\ pc = "call" /\ call.fn = "glb"
    /\ call' = [call EXCEPT !.ret = <<glb(call.args[1], call.args[2])>>]
    /\ pc' = "returned"
    /\ UNCHANGED <<updates, crate, walk, inferred_infos, inferred_map, item_variance_map,
                   constraints, solutions, changed, ci, windex, runs, first_written>>

\* self.xform(v1, v2) on two terms
CallXform ==
    /\ pc = "call" /\ call.fn = "xform"
    /\ call' = [call EXCEPT !.ret = <<xform(call.args[1], call.args[2])>>]
    /\ pc' = "returned"
    /\ UNCHANGED <<updates, crate, walk, inferred_infos, inferred_map, item_variance_map,
                   constraints, solutions, changed, ci, windex, runs, first_written>>

\* self.add_constraints_from_region(region, variance)
CallAddConstraintsFromRegion ==
    /\ pc = "call" /\ call.fn = "add_constraints_from_region"
    /\ LET r == add_constraints_from_region(call.args[1], call.args[2])
       IN  /\ constraints' = constraints \o r.cs
           /\ pc' = IF r.bug THEN "failed" ELSE "returned"
    /\ UNCHANGED <<call, updates, crate, walk, inferred_infos, inferred_map,
                   item_variance_map, solutions, changed, ci, windex, runs, first_written>>

\* self.add_constraints_from_ty(ty, variance)
CallAddConstraintsFromTy ==
    /\ pc = "call" /\ call.fn = "add_constraints_from_ty"
    /\ LET r == add_constraints_from_ty(call.args[1], call.args[2])
       IN  /\ constraints' = constraints \o r.cs
           /\ pc' = IF r.bug THEN "failed" ELSE "returned"
    /\ UNCHANGED <<call, updates, crate, walk, inferred_infos, inferred_map,
                   item_variance_map, solutions, changed, ci, windex, runs, first_written>>

NextCalls ==
    \/ CallVarianceXform
    \/ CallGlb
    \/ CallXform
    \/ CallAddConstraintsFromRegion
    \/ CallAddConstraintsFromTy

SpecCalls == InitCalls /\ [][NextCalls]_vars

(***************************************************************************)
(* Properties of the solver.                                               *)
(***************************************************************************)
RECURSIVE Mentions(_, _)
\* the term refers to the inferred i
Mentions(term, i) ==
    CASE term.tag = "ConstantTerm"  -> FALSE
      [] term.tag = "InferredTerm"  -> term.index = i
      [] term.tag = "TransformTerm" -> Mentions(term.t1, i) \/ Mentions(term.t2, i)

\* the assignment a satisfies the constraint c: a[i] <= evaluate(term, a)
Satisfies(a, c) == Leq(a[c.inferred + 1], evaluate(c.variance, a))

SolveHasReturned == pc \in {"write", "done"}

Orderings(n) == {f \in [1 .. n -> 1 .. n] : \A i, j \in 1 .. n : f[i] = f[j] => i = j}

\* C1: when solve() has returned, every constraint (i, term) of the list has
\* solutions[i] <= evaluate(term, solutions) in the variance lattice.
C1_SolutionsAreLowerBounds ==
    SolveHasReturned =>
        \A k \in 1 .. Len(constraints) : Satisfies(solutions, constraints[k])

\* C1 witness: solve() has returned on a list with a transform over an inferred
\* that lowered a cell.
C1_Witness ==
    /\ pc = "write"
    /\ \E k \in 1 .. Len(constraints) :
          /\ constraints[k].variance.tag = "TransformTerm"
          /\ constraints[k].variance.t2.tag = "InferredTerm"
          /\ solutions[constraints[k].inferred + 1] \in {Covariant, Contravariant}

\* C2: the vector solve() returns with is the greatest solution: every assignment
\* that is pointwise above it and differs from it violates some constraint.
C2_SolutionsAreGreatest ==
    SolveHasReturned =>
        \A a \in [1 .. Len(solutions) -> Variance] :
            (a # solutions /\ \A i \in 1 .. Len(solutions) : Leq(solutions[i], a[i]))
                => \E k \in 1 .. Len(constraints) : ~Satisfies(a, constraints[k])

\* C2 witness: solve() has returned with a cell lowered to Invariant through a
\* transform over an inferred, so that there are assignments above the result.
C2_Witness ==
    /\ pc = "write"
    /\ \E k \in 1 .. Len(constraints) :
          /\ constraints[k].variance.tag = "TransformTerm"
          /\ \E j \in 0 .. (Len(solutions) - 1) : Mentions(constraints[k].variance, j)
          /\ solutions[constraints[k].inferred + 1] = Invariant

\* C3: solve() started from the all-Bivariant vector on any permutation of the
\* constraint list returns with the solutions this run returned with.
C3_OrderIndependent ==
    pc = "write" =>
        \A p \in Orderings(Len(constraints)) :
            solve([k \in 1 .. Len(constraints) |-> constraints[p[k]]],
                  [i \in 1 .. Len(solutions) |-> Bivariant]) = solutions

\* C3 witness: solve() has returned on a list whose first two constraints bound
\* the same inferred by different terms, one of them lowering it further.
C3_Witness ==
    /\ pc = "write"
    /\ Len(constraints) >= 2
    /\ constraints[1].inferred = constraints[2].inferred
    /\ evaluate(constraints[1].variance, solutions) = Covariant
    /\ evaluate(constraints[2].variance, solutions) = Contravariant
    /\ solutions[constraints[1].inferred + 1] = Invariant

\* C4: solve() terminates on every constraint list, cyclic and self-referential
\* ones included: the while loop reaches a sweep that changes no cell and returns.
C4_SolveTerminates == <>(pc = "write")

\* C4 witness: solve() has returned on a list in which two inferreds bound each
\* other, or one bounds itself, and a cell was lowered.
C4_Witness ==
    /\ pc = "write"
    /\ \E k1, k2 \in 1 .. Len(constraints) :
          /\ Mentions(constraints[k1].variance, constraints[k2].inferred)
          /\ Mentions(constraints[k2].variance, constraints[k1].inferred)
          /\ solutions[constraints[k1].inferred + 1] # Bivariant

(***************************************************************************)
(* Properties of the pass.                                                 *)
(***************************************************************************)
Range(seq) == {seq[k] : k \in 1 .. Len(seq)}

Items == Range(crate.items)

VarianceItems == {item \in Items : item.node \in {"item_enum", "item_struct", "item_trait"}}

\* the variance the map holds for the parameter of the inferred index i
Published(i) ==
    LET info  == inferred_infos[i + 1]
        entry == item_variance_map[local_def(info.item_id)]
    IN  CASE info.kind = "SelfParam"   -> entry.self_param[1]
          [] info.kind = "TypeParam"   -> entry.type_params[info.index + 1]
          [] info.kind = "RegionParam" -> entry.region_params[info.index + 1]

\* C5: after the pass the variance map holds, for every enum, struct and trait, an
\* entry with one type_params cell per declared type parameter, one region_params
\* cell per declared lifetime, and a self_param exactly for a trait.
C5_EntryPerItem ==
    pc = "done" =>
        \A item \in VarianceItems :
            /\ local_def(item.id) \in DOMAIN item_variance_map
            /\ LET entry == item_variance_map[local_def(item.id)]
               IN  /\ Len(entry.type_params) = Len(item.ty_params)
                   /\ Len(entry.region_params) = Len(item.lifetimes)
                   /\ (Len(entry.self_param) = 1) <=> (item.node = "item_trait")
                   /\ Len(entry.self_param) <= 1

\* C5 witness: the pass has finished on a crate with a trait without generics, an
\* enum or struct without generics nested in it, and an item with both kinds of parameters.
C5_Witness ==
    /\ pc = "done" /\ runs = 1
    /\ \E t, n, g \in VarianceItems :
          /\ t.node = "item_trait" /\ t.ty_params = <<>> /\ t.lifetimes = <<>>
          /\ t.nested = <<n.id>>
          /\ n.node # "item_trait" /\ n.ty_params = <<>> /\ n.lifetimes = <<>>
          /\ item_variance_map[local_def(n.id)] = ItemVariances(<<>>, <<>>, <<>>)
          /\ g.ty_params # <<>> /\ g.lifetimes # <<>>

\* C6 as stated: for trait Iter<X> { fn next(&mut self) -> Option<X> } the pass emits
\* V(Self) <= Contra and V(X) <= Cov and publishes self_param = Contravariant,
\* type_params = [Covariant].
C6_Original ==
    (crate = IterCrate /\ pc = "done") =>
        /\ Constraint(inferred_map[2], ConstantTerm(Contravariant)) \in Range(constraints)
        /\ Constraint(inferred_map[21], ConstantTerm(Covariant)) \in Range(constraints)
        /\ item_variance_map[local_def(2)] = ItemVariances(<<Contravariant>>, <<Covariant>>, <<>>)

\* C6 amended: for trait Iter<X> { fn next(&mut self) -> Option<X> } the pass emits
\* V(Self) <= Inv for the self argument (the pointee of &mut), V(X) <= Cov x V(A) for
\* the return type, A being the parameter of Option, which evaluates to Cov, and
\* publishes self_param = Invariant, type_params = [Covariant].
C6_IterExample ==
    (crate = IterCrate /\ pc = "done") =>
        /\ {c \in Range(constraints) : c.inferred = inferred_map[2]}
              = {Constraint(inferred_map[2], ConstantTerm(Invariant))}
        /\ {c \in Range(constraints) : c.inferred = inferred_map[21]}
              = {Constraint(inferred_map[21],
                            TransformTerm(ConstantTerm(Covariant),
                                          InferredTerm(inferred_map[11])))}
        /\ \A c \in Range(constraints) :
              c.inferred = inferred_map[21] => evaluate(c.variance, solutions) = Covariant
        /\ item_variance_map[local_def(2)] = ItemVariances(<<Invariant>>, <<Covariant>>, <<>>)

\* C6 witness: the pass has finished on the Iter crate.
C6_Witness == crate = IterCrate /\ pc = "done" /\ runs = 1 /\ Len(constraints) = 3

\* C7: for Option<A>, OptFn<B> and OptMap<C> the generator emits exactly V(A) <= Cov,
\* V(B) <= Contra, V(C) <= Contra and V(C) <= Cov, and the pass publishes
\* [Covariant], [Contravariant] and [Invariant].
C7_DocExample ==
    crate = DocCrate =>
        /\ pc \in {"solve", "write", "done"} =>
              /\ Len(constraints) = 4
              /\ Range(constraints) =
                    { Constraint(inferred_map[11], ConstantTerm(Covariant)),
                      Constraint(inferred_map[21], ConstantTerm(Contravariant)),
                      Constraint(inferred_map[31], ConstantTerm(Contravariant)),
                      Constraint(inferred_map[31], ConstantTerm(Covariant)) }
        /\ pc = "done" =>
              /\ item_variance_map[local_def(1)] = ItemVariances(<<>>, <<Covariant>>, <<>>)
              /\ item_variance_map[local_def(2)] = ItemVariances(<<>>, <<Contravariant>>, <<>>)
              /\ item_variance_map[local_def(3)] = ItemVariances(<<>>, <<Invariant>>, <<>>)

\* C7 witness: the pass has finished on the crate of the three enums.
C7_Witness ==
    /\ crate = DocCrate /\ pc = "done" /\ runs = 1
    /\ solutions = <<Covariant, Contravariant, Invariant>>

RECURSIVE MutableSites(_, _, _)
RECURSIVE MutableSitesOfTys(_, _, _, _)
RECURSIVE MutableSitesOfSubsts(_, _, _, _, _)

\* an early-bound region below a mutable reference or pointer
MutableSitesOfRegion(region, under) ==
    IF region.r = "ReEarlyBound" /\ region.param_id \in DOMAIN inferred_map /\ under # <<>>
    THEN {[inferred |-> inferred_map[region.param_id], ambient |-> under[1]]}
    ELSE {}

MutableSitesOfMt(m, variance, under) ==
    IF m.mutbl = "MutMutable"
    THEN MutableSites(m.ty, xform(variance, ConstantTerm(Invariant)), <<variance>>)
    ELSE MutableSites(m.ty, variance, under)

MutableSitesOfSig(sig, variance, under) ==
    MutableSitesOfTys(sig.inputs, 1, xform(variance, ConstantTerm(Contravariant)), under)
    \cup MutableSites(sig.output, variance, under)

MutableSitesOfTys(tys, k, variance, under) ==
    IF k > Len(tys) THEN {}
    ELSE MutableSites(tys[k], variance, under)
         \cup MutableSitesOfTys(tys, k + 1, variance, under)

MutableSitesOfSubsts(ty, generics, k, variance, under) ==
    IF k > Len(generics.type_param_defs) THEN {}
    ELSE LET decl == declared_variance(generics.type_param_defs[k], ty.def_id, "TypeParam", k - 1)
         IN  MutableSites(ty.substs.tps[k], xform(variance, decl.term), under)
             \cup MutableSitesOfSubsts(ty, generics, k + 1, variance, under)

\* the occurrences of item parameters in ty, a type at ambient variance `variance`,
\* that lie below a mutable reference or pointer: the inferred index of the
\* parameter and the ambient variance at the closest such reference or pointer;
\* `under` holds that ambient variance while the walk is below one
MutableSites(ty, variance, under) ==
    CASE ty.sty = "ty_rptr" ->
            MutableSitesOfRegion(ty.region, under) \cup MutableSitesOfMt(ty.mt, variance, under)
      [] ty.sty = "ty_evec" ->
            (IF ty.vstore.vs = "vstore_slice"
             THEN MutableSitesOfRegion(ty.vstore.r, under) ELSE {})
            \cup MutableSitesOfMt(ty.mt, variance, under)
      [] ty.sty = "ty_estr" ->
            IF ty.vstore.vs = "vstore_slice"
            THEN MutableSitesOfRegion(ty.vstore.r, under) ELSE {}
      [] ty.sty \in {"ty_box", "ty_uniq", "ty_ptr"} ->
            MutableSitesOfMt(ty.mt, variance, under)
      [] ty.sty = "ty_tup" ->
            MutableSitesOfTys(ty.subtys, 1, variance, under)
      [] ty.sty \in {"ty_enum", "ty_struct", "ty_trait"} ->
            MutableSitesOfSubsts(ty, lookup_generics(ty.def_id), 1, variance, under)
            \cup (IF ty.substs.regions.erased THEN {}
                  ELSE UNION {MutableSitesOfRegion(ty.substs.regions.rps[k], under) :
                                 k \in 1 .. Len(ty.substs.regions.rps)})
      [] ty.sty \in {"ty_param", "ty_self"} ->
            IF ty.def_id.node \in DOMAIN inferred_map /\ under # <<>>
            THEN {[inferred |-> inferred_map[ty.def_id.node], ambient |-> under[1]]}
            ELSE {}
      [] ty.sty = "ty_bare_fn" ->
            MutableSitesOfSig(ty.sig, variance, under)
      [] ty.sty = "ty_closure" ->
            MutableSitesOfRegion(ty.region, under) \cup MutableSitesOfSig(ty.sig, variance, under)
      [] OTHER -> {}

\* the same for the fields, variant arguments and method signatures of an item
MutableSitesOfItem(item) ==
    UNION {MutableSites(item.fields[k], ConstantTerm(Covariant), <<>>) :
              k \in 1 .. Len(item.fields)}
    \cup UNION {MutableSitesOfTys(item.variants[k], 1, ConstantTerm(Covariant), <<>>) :
                   k \in 1 .. Len(item.variants)}
    \cup UNION {MutableSitesOfTys(item.methods[k].transformed_self_ty, 1,
                                  ConstantTerm(Contravariant), <<>>)
                \cup MutableSitesOfSig(item.methods[k].sig, ConstantTerm(Covariant), <<>>) :
                   k \in 1 .. Len(item.methods)}

\* the items that lie inside an enum, a struct or a trait
NestedInVarianceItem == UNION {Range(item.nested) : item \in VarianceItems}

\* C8 as stated: every item parameter reached through a mutable reference or pointer
\* in a field, variant argument or method signature is published Invariant, whatever
\* the ambient variance at that position evaluates to.  (Stated for the items the
\* constraint generator traverses, where it already fails.)
C8_Original ==
    pc = "done" =>
        \A item \in VarianceItems : \A site \in MutableSitesOfItem(item) :
            item.id \notin NestedInVarianceItem => Published(site.inferred) = Invariant

\* C8 amended: every item parameter reached through a mutable reference or pointer,
\* in a field, variant argument or method signature that the constraint generator
\* traverses, is published Invariant when the ambient variance at that reference or
\* pointer evaluates to Covariant, Contravariant or Invariant; where it evaluates to
\* Bivariant, transform(ambient, Inv) is Bivariant and bounds nothing.
C8_MutableIsInvariant ==
    pc = "done" =>
        \A item \in VarianceItems : \A site \in MutableSitesOfItem(item) :
            /\ (item.id \notin NestedInVarianceItem
                /\ evaluate(site.ambient, solutions) # Bivariant)
                  => Published(site.inferred) = Invariant
            /\ evaluate(xform(site.ambient, ConstantTerm(Invariant)), solutions) = Invariant
                  <=> evaluate(site.ambient, solutions) # Bivariant

\* C8 witness: the pass has finished on a crate in which a parameter sits behind a
\* mutable reference at a position whose ambient variance is a transform that
\* evaluates to Contravariant, and is published Invariant.
C8_Witness ==
    /\ pc = "done" /\ runs = 1
    /\ \E item \in VarianceItems : \E site \in MutableSitesOfItem(item) :
          /\ site.ambient.tag = "TransformTerm"
          /\ evaluate(site.ambient, solutions) = Contravariant
          /\ Published(site.inferred) = Invariant

\* a crate declares an enum, a struct or a trait
HasVarianceItem == VarianceItems # {}

\* C9 as stated: a second run of infer_variance on the same crate and map completes
\* and leaves every entry equal to the one the first run wrote.
C9_Original ==
    runs >= 2 => /\ pc # "failed"
                 /\ pc = "done" => item_variance_map = first_written

\* C9 amended: a second run of infer_variance on the same crate and map completes
\* only if the crate declares no enum, struct or trait; otherwise it aborts at its
\* first insertion into the variance map, whose assert!(newly_added) fails; all
\* along, every entry of the map equals the one the first run wrote.
C9_RerunAborts ==
    runs >= 2 => /\ item_variance_map = first_written
                 /\ HasVarianceItem => pc # "done"
                 /\ pc = "failed" => HasVarianceItem
                 /\ pc = "write" => windex = 0

\* C9 witness: the second run has solved the constraints again and was aborted by
\* write() at the first item it installs.
C9_Witness ==
    /\ runs = 2 /\ pc = "failed"
    /\ Len(solutions) > 0 /\ Len(constraints) > 0
    /\ \E i \in 1 .. Len(solutions) : solutions[i] # Bivariant

\* the order in which the indexer is to number the parameters of an item
ExpectedInferreds(item) ==
    (IF item.node = "item_trait" THEN <<<<"SelfParam", 0, item.id>>>> ELSE <<>>)
    \o [k \in 1 .. Len(item.lifetimes) |-> <<"RegionParam", k - 1, item.lifetimes[k]>>]
    \o [k \in 1 .. Len(item.ty_params) |-> <<"TypeParam", k - 1, item.ty_params[k]>>]

\* C10: once the indexer has walked the crate, the inferred indices of one item form
\* one contiguous range, with Self (traits, position 0) first, then the lifetimes
\* and then the type parameters, each in declaration order at its declaration index.
C10_ContiguousInOrder ==
    pc \in {"constraints", "solve", "write", "done"} =>
        \A item \in Items :
            LET own      == {i \in 1 .. Len(inferred_infos) : inferred_infos[i].item_id = item.id}
                expected == IF item \in VarianceItems THEN ExpectedInferreds(item) ELSE <<>>
            IN  /\ Cardinality(own) = Len(expected)
                /\ own # {} =>
                      \E k \in own :
                          /\ own = k .. (k + Len(expected) - 1)
                          /\ \A j \in 1 .. Len(expected) :
                                LET info == inferred_infos[k + j - 1]
                                IN  <<info.kind, info.index, info.param_id>> = expected[j]

\* C10 witness: the indexer has walked a crate in which a trait with a lifetime and
\* type parameters is nested in an item with parameters of its own and followed by
\* another item with parameters.
C10_Witness ==
    /\ pc = "constraints" /\ walk = crate.top
    /\ \E o, t \in VarianceItems :
          /\ o.nested = <<t.id>> /\ o.ty_params # <<>> /\ o.lifetimes # <<>>
          /\ t.node = "item_trait" /\ t.lifetimes # <<>> /\ Len(t.ty_params) >= 2
          /\ \E i \in 1 .. Len(inferred_infos) :
                /\ inferred_infos[i].item_id = t.id
                /\ i + 1 + Len(t.lifetimes) + Len(t.ty_params) <= Len(inferred_infos)

(***************************************************************************)
(* Properties of the two operations on ty::Variance.                       *)
(***************************************************************************)
Returned(fn) == pc = "returned" /\ call.fn = fn

\* the transform table of the specification, a row per first operand
TransformTable ==
    [a \in Variance |->
        CASE a = Covariant     -> [b \in Variance |-> b]
          [] a = Contravariant ->
                [b \in Variance |-> CASE b = Covariant     -> Contravariant
                                      [] b = Contravariant -> Covariant
                                      [] OTHER             -> b]
          [] a = Invariant     -> [b \in Variance |-> Invariant]
          [] a = Bivariant     -> [b \in Variance |-> Bivariant]]

\* C11: a.xform(b) is a when b is Cov, b when a is Cov, Inv when a is Inv and Biv
\* when a is Biv, and on all sixteen pairs it is the entry of the transform table.
C11_XformTable ==
    Returned("Xform") =>
        LET a == call.args[1]
            b == call.args[2]
            r == call.ret[1]
        IN  /\ b = Covariant => r = a
            /\ a = Covariant => r = b
            /\ a = Invariant => r = Invariant
            /\ a = Bivariant => r = Bivariant
            /\ r = TransformTable[a][b]

C11_Witness ==
    Returned("Xform") /\ call.args = <<Bivariant, Invariant>> /\ call.ret = <<Bivariant>>

\* C12: glb is commutative, associative and idempotent, Biv is its identity, Inv
\* absorbs, glb(Cov, Contra) = Inv, and glb(a, b) is the greatest lower bound of a
\* and b in the lattice with Biv on top and Inv at the bottom.
C12_GlbIsMeet ==
    Returned("glb") =>
        LET a == call.args[1]
            b == call.args[2]
            r == call.ret[1]
        IN  /\ r = glb(b, a)
            /\ a = b => r = a
            /\ \A c \in Variance : glb(r, c) = glb(a, glb(b, c))
            /\ a = Bivariant => r = b
            /\ b = Bivariant => r = a
            /\ (a = Invariant \/ b = Invariant) => r = Invariant
            /\ (a = Covariant /\ b = Contravariant) => r = Invariant
            /\ Leq(r, a) /\ Leq(r, b)
            /\ \A x \in Variance : (Leq(x, a) /\ Leq(x, b)) => Leq(x, r)

C12_Witness ==
    Returned("glb") /\ call.args = <<Covariant, Contravariant>> /\ call.ret = <<Invariant>>

(***************************************************************************)
(* Properties of the assertions of the indexer and of write().             *)
(***************************************************************************)
RECURSIVE NodeIdsFrom(_, _)
\* the node ids of the items from position k on: each item's id and the ids of the
\* lifetimes and type parameters it declares
NodeIdsFrom(its, k) ==
    IF k > Len(its) THEN <<>>
    ELSE <<its[k].id>> \o its[k].lifetimes \o its[k].ty_params \o NodeIdsFrom(its, k + 1)

\* distinct item ids and parameter ids, no local item in the variance map beforehand
WellFormed(cr) ==
    /\ LET ids == NodeIdsFrom(cr.items, 1)
       IN  \A j, k \in 1 .. Len(ids) : ids[j] = ids[k] => j = k
    /\ \A did \in DOMAIN cr.item_variance_map : did.crate # LOCAL_CRATE

\* C13: on a well-formed program no step of the indexer or of write() fails an
\* assertion (no param_id inserted twice, no second Self in a group, no second entry
\* for an item): every insertion into the variance map adds the entry of an enum,
\* struct or trait that had none, made by the indexer exactly when the item has no
\* inferreds and by write() exactly when it has some, and when the pass is done
\* every enum, struct and trait has its entry.
C13_NoAssertionOnWellFormed ==
    [][(WellFormed(crate) /\ runs = 1) =>
          /\ pc \in {"terms", "write"} => pc' # "failed"
          /\ item_variance_map' # item_variance_map =>
                \E item \in VarianceItems :
                    /\ local_def(item.id) \notin DOMAIN item_variance_map
                    /\ DOMAIN item_variance_map' =
                           DOMAIN item_variance_map \cup {local_def(item.id)}
                    /\ \A did \in DOMAIN item_variance_map :
                           item_variance_map'[did] = item_variance_map[did]
                    /\ pc = "terms" <=> InferredsOfItem(item) = <<>>
                    /\ pc = "write" <=> InferredsOfItem(item) # <<>>
          /\ pc' = "done" =>
                \A item \in VarianceItems : local_def(item.id) \in DOMAIN item_variance_map'
      ]_vars

\* a well-formed crate is done: the indexer installed the entry of an item without
\* parameters and write() the entry of a trait with three or more inferreds
C13_Witness ==
    /\ pc = "done" /\ runs = 1 /\ WellFormed(crate)
    /\ \E item \in VarianceItems :
          /\ InferredsOfItem(item) = <<>>
          /\ item_variance_map[local_def(item.id)] = EmptyItemVariances
    /\ \E item \in VarianceItems :
          /\ item.node = "item_trait" /\ Len(InferredsOfItem(item)) >= 3
          /\ local_def(item.id) \in DOMAIN item_variance_map

(***************************************************************************)
(* Properties of the updates of solve().                                   *)
(***************************************************************************)
RECURSIVE SumFrom(_, _)
SumFrom(seq, k) == IF k > Len(seq) THEN 0 ELSE seq[k] + SumFrom(seq, k + 1)

\* C14: every assignment of solve() to solutions[i] stores glb(evaluate(term), old),
\* which is strictly below the old value, and touches no other cell; so no cell
\* rises, a cell is assigned at most twice, and at most 2 * N assignments are made
\* for N inferreds.
C14_UpdatesStrictlyLower ==
    [][pc = "solve" =>
          /\ \A i \in 1 .. Len(solutions) :
                solutions'[i] # solutions[i] =>
                    /\ ci \in 1 .. Len(constraints) /\ constraints[ci].inferred + 1 = i
                    /\ solutions'[i] = glb(evaluate(constraints[ci].variance, solutions),
                                           solutions[i])
                    /\ Leq(solutions'[i], solutions[i])
                    /\ ~Leq(solutions[i], solutions'[i])
                    /\ updates'[i] = updates[i] + 1
                    /\ \A j \in 1 .. Len(solutions) : j # i => solutions'[j] = solutions[j]
          /\ \A i \in 1 .. Len(solutions) :
                /\ solutions'[i] = solutions[i] => updates'[i] = updates[i]
                /\ updates'[i] <= 2
          /\ SumFrom(updates', 1) <= 2 * Len(solutions)
      ]_vars

\* solve() has returned after lowering one cell twice, to Covariant or Contravariant
\* and then to Invariant
C14_Witness ==
    /\ pc = "write"
    /\ \E i \in 1 .. Len(solutions) : updates[i] = 2 /\ solutions[i] = Invariant
    /\ \E i \in 1 .. Len(solutions) : updates[i] = 0 /\ solutions[i] = Bivariant

(***************************************************************************)
(* Properties of the walk of the constraint generator.                     *)
(***************************************************************************)
\* C15: the constraint generator visits every enum, struct and trait the indexer
\* assigned inferreds to, also one nested inside another enum, struct or trait: once
\* the generator is through, the constraints of the item's variant arguments, fields
\* or method signatures are in the constraint list.
C15_GeneratorRevisits ==
    pc \in {"solve", "write", "done"} =>
        \A item \in VarianceItems :
            InferredsOfItem(item) # <<>> =>
                Range(constraints_of_item(item).cs) \subseteq Range(constraints)

(***************************************************************************)
(* Properties of the terms the constraint generator builds.                *)
(***************************************************************************)
\* C16: the term self.xform(t1, t2) returns evaluates, under every solutions vector,
\* to evaluate(t1).xform(evaluate(t2)); it is t1 when t2 is the covariant constant,
\* else the constant of c1.xform(c2) when both are constants, else TransformTerm(t1, t2).
C16_XformPreservesEvaluate ==
    Returned("xform") =>
        LET t1 == call.args[1]
            t2 == call.args[2]
            r  == call.ret[1]
        IN  /\ \A sol \in [1 .. NumInferred -> Variance] :
                  evaluate(r, sol) = Xform(evaluate(t1, sol), evaluate(t2, sol))
            /\ IF t2 = ConstantTerm(Covariant) THEN r = t1
               ELSE IF t1.tag = "ConstantTerm" /\ t2.tag = "ConstantTerm"
                    THEN r = ConstantTerm(Xform(t1.v, t2.v))
               ELSE r = TransformTerm(t1, t2)

\* the shortcut has handed back a transform term over an inferred unchanged
C16_Witness ==
    /\ Returned("xform")
    /\ call.args[2] = ConstantTerm(Covariant)
    /\ call.args[1].tag = "TransformTerm" /\ call.args[1].t2.tag = "InferredTerm"
    /\ call.ret = <<call.args[1]>>

(***************************************************************************)
(* Properties of what the constraint generator skips.                      *)
(***************************************************************************)
\* C17: a visit of 'static, of a late-bound region or of a type parameter whose id
\* has no entry in inferred_map returns without touching the constraint list; a
\* visit of an early-bound region with parameter id p pushes exactly the constraint
\* (inferred_map[p], ambient) and is never skipped (where p has no entry the visit
\* aborts); a visit of a free, scope, inference or empty region aborts.
C17_OnlyUnindexedIsSkipped ==
    [][pc = "call" =>
          LET arg      == call.args[1]
              variance == call.args[2]
          IN  /\ call.fn = "add_constraints_from_region" =>
                    CASE arg.r \in {"ReStatic", "ReLateBound"} ->
                            constraints' = constraints /\ pc' = "returned"
                      [] arg.r = "ReEarlyBound" ->
                            /\ ~(constraints' = constraints /\ pc' = "returned")
                            /\ IF arg.param_id \in DOMAIN inferred_map
                               THEN /\ constraints' =
                                           Append(constraints,
                                                  Constraint(inferred_map[arg.param_id], variance))
                                    /\ pc' = "returned"
                               ELSE constraints' = constraints /\ pc' = "failed"
                      [] arg.r \in {"ReFree", "ReScope", "ReInfer", "ReEmpty"} ->
                            constraints' = constraints /\ pc' = "failed"
              /\ (/\ call.fn = "add_constraints_from_ty"
                  /\ arg.sty = "ty_param"
                  /\ arg.def_id.node \notin DOMAIN inferred_map) =>
                    constraints' = constraints /\ pc' = "returned"
      ]_vars

\* the visit of the trait's lifetime parameter at a contravariant position has pushed
\* its constraint behind the one that was there
C17_Witness ==
    /\ pc = "returned" /\ call.fn = "add_constraints_from_region"
    /\ call.args[1].r = "ReEarlyBound" /\ call.args[2] = ConstantTerm(Contravariant)
    /\ Len(constraints) = 2
    /\ constraints[2] = Constraint(inferred_map[call.args[1].param_id],
                                   ConstantTerm(Contravariant))

====
